---- MODULE Spec2Model ----
(***************************************************************************)
(* Model of vcxproj.py: the rewrite driver filter_file, the tokenizer      *)
(* adapter ExpatParser, the stages filter_chars, to_lines, compute_indent, *)
(* to_strings and line_writer, and the filter primitives skip_to,          *)
(* set_content and send_element.                                           *)
(*                                                                         *)
(* A file is a sequence of lexemes: the XML declaration, tags, and runs of *)
(* character data written as sequences of source characters ("&amp;" is    *)
(* the escaped form of "&", "\r\n" the line break of the file).  A Python  *)
(* string handed to line_writer is a sequence of such lexemes whose        *)
(* character data items hold one character each.  One action is one        *)
(* callback of the tokenizer, run through the whole coroutine chain.       *)
(***************************************************************************)
EXTENDS Integers, Sequences, FiniteSets, TLC

VARIABLES doc, mode, pass, pos, pend, open, phase, err,
          fc, flt, tl, indent, lw, dest, hist, received, sentTo, lastLines, out1

vars == <<doc, mode, pass, pos, pend, open, phase, err,
          fc, flt, tl, indent, lw, dest, hist, received, sentTo, lastLines, out1>>

\* ------------------------------------------------------------------ bounds
MaxChildren == 2
MaxNest == 1

\* ------------------------------------------------------------------ helpers
Range(s) == {s[i] : i \in 1..Len(s)}

Spaces(n) == [i \in 1..n |-> " "]

\* str.strip() removes these characters
Whitespace == {" ", "\n", "\r", "\t"}

Blank(s) == \A i \in 1..Len(s) : s[i] \in Whitespace

HasNL(s) == "\n" \in Range(s)

None == <<"None">>

\* ------------------------------------------------------------------ lexemes
Decl == [k |-> "decl", name |-> "", attrs |-> <<>>, c |-> <<>>]

OpenTag(n, a) == [k |-> "open", name |-> n, attrs |-> a, c |-> <<>>]

EmptyTag(n, a) == [k |-> "empty", name |-> n, attrs |-> a, c |-> <<>>]

CloseTag(n) == [k |-> "close", name |-> n, attrs |-> <<>>, c |-> <<>>]

Chars(s) == [k |-> "text", name |-> "", attrs |-> <<>>, c |-> s]

Ch(ch) == Chars(<<ch>>)

\* adjacent character data is one run of text in the file
Merge(a, b) ==
  IF a # <<>> /\ b # <<>> /\ a[Len(a)].k = "text" /\ b[1].k = "text"
  THEN SubSeq(a, 1, Len(a) - 1) \o <<Chars(a[Len(a)].c \o b[1].c)>> \o Tail(b)
  ELSE a \o b

NormItem(item) == IF item.k = "text" /\ item.c = <<>> THEN <<>> ELSE <<item>>

RECURSIVE Norm(_)
Norm(f) ==
  IF f = <<>> THEN <<>>
  ELSE IF Len(f) = 1 THEN NormItem(f[1])
  ELSE Merge(Norm(SubSeq(f, 1, Len(f) \div 2)),
             Norm(SubSeq(f, Len(f) \div 2 + 1, Len(f))))

\* ------------------------------------------------------------------ events
StartElem(n, a) == [action |-> "start_elem", name |-> n, attrs |-> a, content |-> <<>>]

EndElem(n) == [action |-> "end_elem", name |-> n, attrs |-> <<>>, content |-> <<>>]

Text(s) == [action |-> "chars", name |-> "", attrs |-> <<>>, content |-> s]

NoOp == [action |-> "noop", name |-> "", attrs |-> <<>>, content |-> <<>>]

\* ------------------------------------------------------------------ tokenizer
\* expat replaces entity references and normalises line breaks
Decode(sc) ==
  CASE sc = "&amp;" -> "&"
    [] sc = "&lt;" -> "<"
    [] sc = "&gt;" -> ">"
    [] sc = "&quot;" -> "\""
    [] sc = "\r\n" -> "\n"
    [] OTHER -> sc

DecodeStr(s) == [i \in 1..Len(s) |-> Decode(s[i])]

DecodeAttrs(sa) == [i \in 1..Len(sa) |-> [n |-> sa[i].n, v |-> DecodeStr(sa[i].v)]]

\* a bare "&" or "<" in character data is not well-formed
Malformed(item) == item.k = "text" /\ (Range(item.c) \cap {"&", "<"}) # {}

\* ------------------------------------------------------------------ filter_chars
FcInit == [open |-> FALSE, content |-> <<>>, has |-> FALSE]

\* the whitespace body is not told apart from text
FcBodyAlwaysText(content) == <<Text(content)>>

FcBody(content) ==
  IF HasNL(content) /\ Blank(content) THEN <<NoOp>> ELSE <<Text(content)>>

\* a piece replaces the text received so far
FcCharsLastPiece(s, ev) ==
  [st |-> IF s.open THEN [s EXCEPT !.content = ev.content, !.has = TRUE] ELSE s,
   out |-> <<>>]

\* lines 447-451
FcChars(s, ev) ==
  [st |-> IF s.open THEN [s EXCEPT !.content = @ \o ev.content, !.has = TRUE] ELSE s,
   out |-> <<>>]

\* the start tag is sent without its attributes
FcStartNoAttrs(s, ev) ==
  [st |-> [open |-> TRUE, content |-> <<>>, has |-> FALSE],
   out |-> <<StartElem(ev.name, <<>>)>>]

\* lines 452-454 and 465
FcStart(s, ev) == [st |-> [open |-> TRUE, content |-> <<>>, has |-> FALSE], out |-> <<ev>>]

\* content is not set back to None after an end tag
FcEndKeepsContent(s, ev) ==
  [st |-> [open |-> s.open, content |-> s.content, has |-> FALSE],
   out |-> (IF s.open /\ s.has THEN FcBody(s.content) ELSE <<>>) \o <<ev>>]

\* lines 455-465
FcEnd(s, ev) ==
  [st |-> FcInit,
   out |-> (IF s.open /\ s.has THEN FcBody(s.content) ELSE <<>>) \o <<ev>>]

filter_chars(s, ev) ==
  IF ev.action = "chars" THEN FcChars(s, ev)
  ELSE IF ev.action = "start_elem" THEN FcStart(s, ev)
  ELSE IF ev.action = "end_elem" THEN FcEnd(s, ev)
  ELSE [st |-> s, out |-> <<ev>>]

\* ------------------------------------------------------------------ skip_to
AttrTest(test, attrs) == IF test = "hasattrs" THEN attrs # <<>> ELSE TRUE

\* the test of the nesting level is left out
SkipMatchesAnyLevel(stack, name, test, ev) ==
  /\ ~(name = "" /\ test = "none")
  /\ (name = "" \/ ev.name = name)
  /\ (test = "none" \/ AttrTest(test, ev.attrs))

SkipMatches(stack, name, test, ev) ==
  /\ ~(name = "" /\ test = "none")
  /\ stack = <<>>
  /\ (name = "" \/ ev.name = name)
  /\ (test = "none" \/ AttrTest(test, ev.attrs))

\* one received item: ret = the call returns, fwd = the item is sent to target
skip_to(stack, name, test, ev) ==
  IF ev.action = "start_elem"
  THEN IF SkipMatches(stack, name, test, ev)
       THEN [ret |-> TRUE, matched |-> TRUE, stack |-> stack, fwd |-> FALSE, ok |-> TRUE]
       ELSE [ret |-> FALSE, matched |-> FALSE, stack |-> Append(stack, ev.name),
             fwd |-> TRUE, ok |-> TRUE]
  ELSE IF ev.action = "end_elem"
  THEN IF stack = <<>>
       THEN [ret |-> TRUE, matched |-> FALSE, stack |-> stack, fwd |-> FALSE, ok |-> TRUE]
       ELSE [ret |-> FALSE, matched |-> FALSE, stack |-> SubSeq(stack, 1, Len(stack) - 1),
             fwd |-> stack[Len(stack)] = ev.name, ok |-> stack[Len(stack)] = ev.name]
  ELSE [ret |-> FALSE, matched |-> FALSE, stack |-> stack, fwd |-> TRUE, ok |-> TRUE]

\* ------------------------------------------------------------------ send_element
\* the content is left out
send_element_NoContent(name, attrs, content) == <<StartElem(name, attrs), EndElem(name)>>

send_element(name, attrs, content) ==
  <<StartElem(name, attrs)>>
  \o (IF content # None THEN <<Text(content)>> ELSE <<>>)
  \o <<EndElem(name)>>

\* ------------------------------------------------------------------ filters
\* The filter coroutine handed to filter_file.  f = "pass" forwards every
\* item (item_logger); f = "skip" forwards the root's start tag, runs
\* skip_to(target, name, attr_test) among the root's children and forwards
\* the returned item and all later ones; f = "set" does the same with
\* set_content(target, name, content).  name = "" and test = "none" stand
\* for None.
PassFilter == [f |-> "pass", name |-> "", test |-> "none", content |-> None, after |-> ""]

SkipFilter(n, t) == [f |-> "skip", name |-> n, test |-> t, content |-> None, after |-> ""]

SetFilter(n, v) == [f |-> "set", name |-> n, test |-> "none", content |-> v, after |-> ""]

\* a filter that forwards every item and sends ("chars", content) after
\* each item with action a of an element named n
InjectFilter(n, a, v) == [f |-> "inject", name |-> n, test |-> "none", content |-> v, after |-> a]

NoRet == [returned |-> FALSE, matched |-> FALSE, ev |-> NoOp]

\* pc: where the coroutine waits; stack: element_stack of the running
\* skip_to; attrs: the attrs saved by set_content; ret: what the primitive
\* returned; recv: the items the primitive received before the one it
\* returned; sent: the items the primitive itself sent to target.
FltInit(m) == [pc |-> IF m.f \in {"pass", "inject"} THEN m.f ELSE "pre", stack |-> <<>>,
               attrs |-> <<>>, ret |-> NoRet, recv |-> <<>>, sent |-> <<>>]

\* outcome of one item in a primitive: it waits for the next item, it
\* returns to its caller, or an assertion fails
Sent(st, out) == [st |-> st, out |-> out, err |-> "none", ret |-> FALSE, matched |-> FALSE]

Return(st, out, matched) ==
  [st |-> st, out |-> out, err |-> "none", ret |-> TRUE, matched |-> matched]

Raise(st, e) == [st |-> st, out |-> <<>>, err |-> e, ret |-> FALSE, matched |-> FALSE]

\* the item is sent before it is tested
FwdAlways(r, ev) == <<ev>>

Fwd(r, ev) == IF r.fwd THEN <<ev>> ELSE <<>>

\* yield from skip_to(target, m.name, m.test) as the body of the filter
SkipOutcome(s, ev, r) ==
  IF ~r.ok THEN Raise(s, "assert_stack")
  ELSE IF r.ret THEN Return([s EXCEPT !.stack = r.stack], Fwd(r, ev), r.matched)
  ELSE Sent([s EXCEPT !.stack = r.stack], Fwd(r, ev))

SkipCall(m, s, ev) == SkipOutcome(s, ev, skip_to(s.stack, m.name, m.test, ev))

\* line 161: found, action, params = yield from skip_to(target, name)
SetFirstScan(m, s, ev, r) ==
  IF ~r.ok THEN Raise(s, "assert_stack")
  ELSE IF r.ret /\ r.matched
  THEN Sent([s EXCEPT !.pc = "chars", !.attrs = ev.attrs, !.stack = <<>>], Fwd(r, ev))
  ELSE IF r.ret
  THEN Return(s, Fwd(r, ev) \o send_element(m.name, <<>>, m.content), FALSE)
  ELSE Sent([s EXCEPT !.stack = r.stack], Fwd(r, ev))

\* lines 164-165: action, params = yield; assert action == "chars"
SetExpectChars(s, ev) ==
  IF ev.action = "chars" THEN Sent([s EXCEPT !.pc = "s2", !.stack = <<>>], <<>>)
  ELSE Raise(s, "assert_chars")

\* lines 166-167: skip_to(target), then send_element
SetToEnd(m, s, ev, r) ==
  IF ~r.ok THEN Raise(s, "assert_stack")
  ELSE IF r.ret
  THEN Sent([s EXCEPT !.pc = "s3", !.stack = <<>>],
            Fwd(r, ev) \o send_element(m.name, s.attrs, m.content))
  ELSE Sent([s EXCEPT !.stack = r.stack], Fwd(r, ev))

\* the enclosing end tag is sent to target before it is returned
SetNoDuplicateForwards(s, ev, r) ==
  IF ~r.ok THEN Raise(s, "assert_stack")
  ELSE IF r.ret /\ r.matched THEN Raise(s, "duplicate")
  ELSE IF r.ret THEN Return(s, <<ev>>, FALSE)
  ELSE Sent([s EXCEPT !.stack = r.stack], Fwd(r, ev))

\* lines 169-170: skip_to(target, name); assert not found
SetNoDuplicate(s, ev, r) ==
  IF ~r.ok THEN Raise(s, "assert_stack")
  ELSE IF r.ret /\ r.matched THEN Raise(s, "duplicate")
  ELSE IF r.ret THEN Return(s, Fwd(r, ev), FALSE)
  ELSE Sent([s EXCEPT !.stack = r.stack], Fwd(r, ev))

\* pc: s1 = waiting in line 161, chars = 164, s2 = 166, s3 = 169
set_content(m, s, ev) ==
  IF s.pc = "s1" THEN SetFirstScan(m, s, ev, skip_to(s.stack, m.name, "none", ev))
  ELSE IF s.pc = "chars" THEN SetExpectChars(s, ev)
  ELSE IF s.pc = "s2" THEN SetToEnd(m, s, ev, skip_to(s.stack, "", "none", ev))
  ELSE SetNoDuplicate(s, ev, skip_to(s.stack, m.name, "none", ev))

\* the filter forwards what the primitive returned and all later items
FilterOutcome(ev, r) ==
  IF r.err # "none" THEN [st |-> r.st, out |-> r.out, err |-> r.err]
  ELSE IF r.ret
  THEN [st |-> [r.st EXCEPT !.pc = "pass", !.sent = @ \o r.out,
                            !.ret = [returned |-> TRUE, matched |-> r.matched, ev |-> ev]],
        out |-> r.out \o <<ev>>, err |-> "none"]
  ELSE [st |-> [r.st EXCEPT !.recv = Append(@, ev), !.sent = @ \o r.out],
        out |-> r.out, err |-> "none"]

Inject(m, ev) ==
  IF ev.action = m.after /\ ev.name = m.name THEN <<ev, Text(m.content)>> ELSE <<ev>>

\* one item received by the filter
FilterStep(m, s, ev) ==
  IF s.pc = "pass" THEN [st |-> s, out |-> <<ev>>, err |-> "none"]
  ELSE IF s.pc = "inject" THEN [st |-> s, out |-> Inject(m, ev), err |-> "none"]
  ELSE IF s.pc = "pre"
  THEN [st |-> [s EXCEPT !.pc = IF m.f = "skip" THEN "skip" ELSE "s1"],
        out |-> <<ev>>, err |-> "none"]
  ELSE IF m.f = "skip" THEN FilterOutcome(ev, SkipCall(m, s, ev))
  ELSE FilterOutcome(ev, set_content(m, s, ev))

\* a stage's result on a sequence of items: r on the first, q on the rest
After(r, q) == [st |-> q.st, out |-> r.out \o q.out, err |-> q.err]

\* the items of evs sent to the filter one after the other, up to a failure
RECURSIVE FilterRun(_, _, _)
FilterRest(m, r, rest) ==
  IF r.err # "none" THEN r ELSE After(r, FilterRun(m, r.st, rest))

FilterRun(m, s, evs) ==
  IF evs = <<>> THEN [st |-> s, out |-> <<>>, err |-> "none"]
  ELSE FilterRest(m, FilterStep(m, s, evs[1]), Tail(evs))

\* ------------------------------------------------------------------ to_lines
StartLine(se) == [t |-> "start_elem_line", name |-> se.name, attrs |-> se.attrs, content |-> <<>>]

EmptyLine(se) == [t |-> "empty_elem_line", name |-> se.name, attrs |-> se.attrs, content |-> <<>>]

ContentLine(se, content) ==
  [t |-> "content_elem_line", name |-> se.name, attrs |-> se.attrs, content |-> content]

EndLine(ev) == [t |-> "end_elem_line", name |-> ev.name, attrs |-> <<>>, content |-> <<>>]

\* pc: "top" = the loop of to_lines, "post" = to_lines_post_start_elem
\* waiting for the item after a start_elem, "chars" = to_lines_elem_chars
TlInit == [pc |-> "top", se |-> NoOp, content |-> <<>>]

TlTop == [pc |-> "top", se |-> NoOp, content |-> <<>>]

\* lines 375-386, on an item that was received or handed back
to_lines(ev) ==
  IF ev.action = "start_elem"
  THEN [st |-> [pc |-> "post", se |-> ev, content |-> <<>>], out |-> <<>>, err |-> "none"]
  ELSE IF ev.action = "end_elem"
  THEN [st |-> TlTop, out |-> <<EndLine(ev)>>, err |-> "none"]
  ELSE [st |-> TlTop, out |-> <<>>, err |-> "none"]

\* the peeked item is handed back to the loop of to_lines after the line
\* the peeked item is dropped after the line
ReplayDropped(line, ev) == [st |-> TlTop, out |-> <<line>>, err |-> "none"]

Replay(line, ev) == [to_lines(ev) EXCEPT !.out = <<line>> \o @]

to_lines_post_start_elem(s, ev) ==
  IF ev.action = "end_elem"
  THEN IF ev.name = s.se.name
       THEN [st |-> TlTop, out |-> <<EmptyLine(s.se)>>, err |-> "none"]
       ELSE [st |-> s, out |-> <<>>, err |-> "assert_name"]
  ELSE IF ev.action = "chars"
  THEN [st |-> [pc |-> "chars", se |-> s.se, content |-> ev.content],
        out |-> <<>>, err |-> "none"]
  ELSE Replay(StartLine(s.se), ev)

\* the text beside a child element is not tested
to_lines_elem_chars_unchecked(s, ev) ==
  IF ev.action = "chars"
  THEN [st |-> [s EXCEPT !.content = @ \o ev.content], out |-> <<>>, err |-> "none"]
  ELSE IF ev.action = "end_elem"
  THEN IF ev.name = s.se.name
       THEN [st |-> TlTop, out |-> <<ContentLine(s.se, s.content)>>, err |-> "none"]
       ELSE [st |-> s, out |-> <<>>, err |-> "assert_name"]
  ELSE Replay(StartLine(s.se), ev)

to_lines_elem_chars(s, ev) ==
  IF ev.action = "chars"
  THEN [st |-> [s EXCEPT !.content = @ \o ev.content], out |-> <<>>, err |-> "none"]
  ELSE IF ev.action = "end_elem"
  THEN IF ev.name = s.se.name
       THEN [st |-> TlTop, out |-> <<ContentLine(s.se, s.content)>>, err |-> "none"]
       ELSE [st |-> s, out |-> <<>>, err |-> "assert_name"]
  ELSE IF Blank(s.content)
  THEN Replay(StartLine(s.se), ev)
  ELSE [st |-> s, out |-> <<>>, err |-> "assert_mixed"]

LinesStep(s, ev) ==
  IF s.pc = "top" THEN to_lines(ev)
  ELSE IF s.pc = "post" THEN to_lines_post_start_elem(s, ev)
  ELSE to_lines_elem_chars(s, ev)

RECURSIVE LinesRun(_, _)
LinesRest(r, rest) ==
  IF r.err # "none" THEN r ELSE After(r, LinesRun(r.st, rest))

LinesRun(s, evs) ==
  IF evs = <<>> THEN [st |-> s, out |-> <<>>, err |-> "none"]
  ELSE LinesRest(LinesStep(s, evs[1]), Tail(evs))

\* ------------------------------------------------------------------ compute_indent
\* indent is decremented after the end line has been sent
compute_indent_late(n, line) ==
  IF line.t = "end_elem_line"
  THEN [indent |-> n - 1, out |-> [d |-> n, line |-> line]]
  ELSE IF line.t = "start_elem_line"
  THEN [indent |-> n + 1, out |-> [d |-> n, line |-> line]]
  ELSE [indent |-> n, out |-> [d |-> n, line |-> line]]

\* indent: the counter after the item; out: the item sent to target
compute_indent(n, line) ==
  IF line.t = "end_elem_line"
  THEN [indent |-> n - 1, out |-> [d |-> n - 1, line |-> line]]
  ELSE IF line.t = "start_elem_line"
  THEN [indent |-> n + 1, out |-> [d |-> n, line |-> line]]
  ELSE [indent |-> n, out |-> [d |-> n, line |-> line]]

IndentAfter(r, q) == [indent |-> q.indent, out |-> <<r.out>> \o q.out]

RECURSIVE IndentRun(_, _)
IndentRest(r, rest) == IndentAfter(r, IndentRun(r.indent, rest))

IndentRun(n, lines) ==
  IF lines = <<>> THEN [indent |-> n, out |-> <<>>]
  ELSE IndentRest(compute_indent(n, lines[1]), Tail(lines))

\* ------------------------------------------------------------------ to_strings
\* xml.sax.saxutils.escape with the entities quoteattr adds
Escape(ch) ==
  CASE ch = "&" -> "&amp;"
    [] ch = "<" -> "&lt;"
    [] ch = ">" -> "&gt;"
    [] ch = "\n" -> "&#10;"
    [] ch = "\r" -> "&#13;"
    [] ch = "\t" -> "&#9;"
    [] OTHER -> ch

EscapeStr(v) == [i \in 1..Len(v) |-> Escape(v[i])]

\* the quote character and the escaped value
quoteattr(v) ==
  IF "\"" \in Range(v)
  THEN IF "'" \in Range(v)
       THEN [q |-> "\"",
             v |-> [i \in 1..Len(v) |-> IF v[i] = "\"" THEN "&quot;" ELSE Escape(v[i])]]
       ELSE [q |-> "'", v |-> EscapeStr(v)]
  ELSE [q |-> "\"", v |-> EscapeStr(v)]

AttrText(n, qv) == [n |-> n, q |-> qv.q, v |-> qv.v]

xml_attrs(attrs) == [i \in 1..Len(attrs) |-> AttrText(attrs[i].n, quoteattr(attrs[i].v))]

xml_indent(n) == [i \in 1..(2 * n) |-> Ch(" ")]

xml_tag_open_elem(name, attrs) == <<OpenTag(name, xml_attrs(attrs))>>

xml_tag_empty_elem(name, attrs) == <<EmptyTag(name, xml_attrs(attrs))>>

xml_tag_close_elem(name) == <<CloseTag(name)>>

\* the characters of a content string, written as they are
Literal(content) == [i \in 1..Len(content) |-> Ch(content[i])]

IsNL(item) == item.k = "text" /\ item.c = <<"\n">>

\* str.split("\n")
SplitCons(item, r) ==
  IF IsNL(item) THEN << <<>> >> \o r ELSE << <<item>> \o r[1] >> \o Tail(r)

RECURSIVE Split(_)
Split(str) == IF str = <<>> THEN << <<>> >> ELSE SplitCons(str[1], Split(Tail(str)))

DeclLine == <<Decl>>

\* the strings sent to target for one (indent, action, params)
to_strings(d, line) ==
  IF line.t = "start_elem_line"
  THEN << xml_indent(d) \o xml_tag_open_elem(line.name, line.attrs) >>
  ELSE IF line.t = "empty_elem_line"
  THEN << xml_indent(d) \o xml_tag_empty_elem(line.name, line.attrs) >>
  ELSE IF line.t = "content_elem_line"
  THEN Split(xml_indent(d) \o xml_tag_open_elem(line.name, line.attrs)
             \o Literal(line.content) \o xml_tag_close_elem(line.name))
  ELSE IF line.t = "end_elem_line"
  THEN << xml_indent(d) \o xml_tag_close_elem(line.name) >>
  ELSE <<>>

RECURSIVE StringsRun(_)
StringsRun(dls) ==
  IF dls = <<>> THEN <<>> ELSE to_strings(dls[1].d, dls[1].line) \o StringsRun(Tail(dls))

\* ------------------------------------------------------------------ line_writer
Newline == <<Ch("\r\n")>>

\* the newline is written behind every line
line_writer_trailing(w, line) == [started |-> TRUE, text |-> w.text \o line \o Newline]

\* w.started: the first line has been written; w.text: what writer holds
line_writer(w, line) ==
  [started |-> TRUE, text |-> IF w.started THEN w.text \o Newline \o line ELSE w.text \o line]

RECURSIVE WriterRun(_, _)
WriterRun(w, lines) ==
  IF lines = <<>> THEN w ELSE WriterRun(line_writer(w, lines[1]), Tail(lines))

\* genoutput(io.StringIO()): priming to_strings sends the declaration
genoutput == line_writer([started |-> FALSE, text |-> <<>>], DeclLine)

\* ------------------------------------------------------------------ documents
\* Source files the driver is run on.  Attribute values are kept in source
\* form with their quote character.
NoAttrs == <<>>

SomeAttrs == << [n |-> "b", q |-> "\"", v |-> <<"2">>],
                [n |-> "a", q |-> "\"", v |-> <<"&quot;", "&amp;">>] >>

TagA == [name |-> "A", attrs |-> NoAttrs]

TagB == [name |-> "B", attrs |-> NoAttrs]

TagBk == [name |-> "B", attrs |-> SomeAttrs]

\* the line break and indentation Visual Studio writes before a tag at depth d
LayoutWs(d) == Chars(<<"\r\n">> \o Spaces(2 * d))

SelfClosing(t) == <<EmptyTag(t.name, t.attrs)>>

Leaf(t, body) == <<OpenTag(t.name, t.attrs)>> \o body \o <<CloseTag(t.name)>>

Nest(t, d, child) ==
  <<OpenTag(t.name, t.attrs), LayoutWs(d + 1)>> \o child \o <<LayoutWs(d), CloseTag(t.name)>>

\* a line break and the indentation of the closing tag, in two pieces
WsBody(d) == <<Chars(<<"\r\n">>), Chars(Spaces(2 * d))>>

\* what a sibling may hold: a B, possibly wrapped in further A elements
RECURSIVE Nested(_, _)
Nested(d, n) ==
  {Leaf(TagB, <<Chars(<<"x">>)>>)}
  \cup (IF n > 1 THEN {Nest(TagA, d, c) : c \in Nested(d + 1, n - 1)} ELSE {})

ChildForms(d) ==
  {SelfClosing(TagA), SelfClosing(TagB), Leaf(TagB, <<Chars(<<"x">>)>>),
   Leaf(TagBk, <<Chars(<<"x">>)>>), Leaf(TagB, WsBody(d))}
  \cup (IF MaxNest > 0
        THEN {Nest(TagA, d, c) : c \in Nested(d + 1, MaxNest)}
             \cup {Nest(TagB, d, SelfClosing(TagA))}
        ELSE {})

MoreChildren(shorter) ==
  shorter \cup {<<LayoutWs(1)>> \o c \o l : c \in ChildForms(1), l \in shorter}

RECURSIVE ChildLists(_)
ChildLists(n) == IF n = 0 THEN {<<>>} ELSE MoreChildren(ChildLists(n - 1))

Root(children) ==
  IF children = <<>> THEN <<Decl, LayoutWs(0), EmptyTag("P", NoAttrs)>>
  ELSE <<Decl, LayoutWs(0), OpenTag("P", NoAttrs)>> \o children
       \o <<LayoutWs(0), CloseTag("P")>>

\* documents in the layout of Visual Studio, varying in structure
StructDocs == {Root(l) : l \in ChildLists(MaxChildren)}

\* bodies of an element without child elements, at depth 1
TextBodies ==
  { <<>>,
    <<Chars(<<"x">>)>>,
    <<Chars(<<" ">>)>>,
    WsBody(1),
    <<Chars(<<"x", "&amp;">>)>>,
    <<Chars(<<"x">>), Chars(<<"\r\n", "x">>)>>,
    <<Chars(<<"&">>)>> }

\* the character data around the only child: the layout's, none, or text
Around == { [pre |-> <<LayoutWs(0)>>, in |-> <<LayoutWs(1)>>, out |-> <<LayoutWs(0)>>],
            [pre |-> <<>>, in |-> <<>>, out |-> <<>>],
            [pre |-> <<LayoutWs(0)>>, in |-> <<Chars(<<"x">>)>>, out |-> <<Chars(<<"\r\n", "x">>)>>] }

TextDoc(a, t, b) ==
  <<Decl>> \o a.pre \o <<OpenTag("P", NoAttrs)>> \o a.in \o Leaf(t, b) \o a.out
  \o <<CloseTag("P")>>

\* documents with one child, varying in character data
TextDocs == {TextDoc(a, t, b) : a \in Around, t \in {TagA, TagB}, b \in TextBodies}

Docs == StructDocs \cup TextDocs

\* the documents of Docs that are well-formed and written in the layout:
\* every tag on a line of its own behind two spaces per level, an element
\* without content as a self-closing tag, no text beside child elements
LayoutAround == [pre |-> <<LayoutWs(0)>>, in |-> <<LayoutWs(1)>>, out |-> <<LayoutWs(0)>>]

LayoutDocs ==
  StructDocs
  \cup {TextDoc(LayoutAround, t, b) :
          t \in {TagA, TagB}, b \in TextBodies \ {<<>>, <<Chars(<<"&">>)>>}}

Contents == { <<"v">>, <<>>, <<"\n", " ", " ">> }

Injected == { <<"x">>, <<" ">> }

Filters ==
  {PassFilter}
  \cup {SkipFilter(n, t) : n \in {"", "B"}, t \in {"none", "hasattrs"}}
  \cup {SetFilter("B", v) : v \in Contents}
  \cup {InjectFilter("B", a, v) : a \in {"start_elem", "end_elem"}, v \in Injected}

\* what the destination file holds before the call
DestBefore == <<Chars(<<"old">>)>>

\* ------------------------------------------------------------------ driver
\* the file the tokenizer reads: the source, or in the second pass the
\* file the first pass wrote
Input == IF pass = 1 THEN doc ELSE Norm(dest)

\* what the filter, to_lines, compute_indent and to_strings have sent to
\* their targets in this pass; to_strings sends the declaration when it is
\* primed
SentInit == [events |-> <<>>, lines |-> <<>>, dlines |-> <<>>, strings |-> <<DeclLine>>]

\* the items of evs sent to to_lines: all of them, or those up to the one
\* on which an assertion of to_lines failed
FailsWithin(s, evs, m) == LinesRun(s, SubSeq(evs, 1, m)).err # "none"

TakenByLines(s, evs, e) ==
  IF e = "none" THEN evs
  ELSE SubSeq(evs, 1, CHOOSE m \in 1..Len(evs) :
                        /\ FailsWithin(s, evs, m)
                        /\ \A k \in 1..(m - 1) : ~FailsWithin(s, evs, k))

Init ==
  /\ doc \in Docs
  /\ mode \in Filters
  /\ pass = 1
  /\ pos = 1
  /\ pend = FALSE
  /\ open = TRUE
  /\ phase = "parsing"
  /\ err = "none"
  /\ fc = FcInit
  /\ flt = FltInit(mode)
  /\ tl = TlInit
  /\ indent = 0
  /\ lw = genoutput
  /\ dest = DestBefore
  /\ hist = <<>>
  /\ received = <<>>
  /\ sentTo = SentInit
  /\ lastLines = <<>>
  /\ out1 = <<>>

\* one callback of the tokenizer: the item goes through filter_chars, the
\* filter, to_lines, compute_indent, to_strings and line_writer before the
\* callback returns; an AssertionError of a stage leaves parse_filename
\* (closing the source) and filter_file
Written(r2, r3, r4) ==
  /\ flt' = r2.st
  /\ tl' = r3.st
  /\ indent' = r4.indent
  /\ lw' = WriterRun(lw, StringsRun(r4.out))
  /\ sentTo' = [events |-> sentTo.events \o TakenByLines(tl, r2.out, r3.err),
                lines |-> sentTo.lines \o r3.out,
                dlines |-> sentTo.dlines \o r4.out,
                strings |-> sentTo.strings \o StringsRun(r4.out)]
  /\ lastLines' = r3.out
  /\ err' = (IF r3.err # "none" THEN r3.err ELSE r2.err)
  /\ phase' = (IF r3.err = "none" /\ r2.err = "none" THEN "parsing" ELSE "aborted")
  /\ open' = (r3.err = "none" /\ r2.err = "none")

Lined(r2, r3) == Written(r2, r3, IndentRun(indent, r3.out))

Filtered(r2) == Lined(r2, LinesRun(tl, r2.out))

Normalized(r1) ==
  fc' = r1.st /\ received' = received \o r1.out /\ Filtered(FilterRun(mode, flt, r1.out))

Deliver(ev) == hist' = Append(hist, ev) /\ Normalized(filter_chars(fc, ev))

Reading == phase = "parsing" /\ pos <= Len(Input)

\* the declaration has no handler
XmlDecl ==
  /\ Reading /\ ~pend /\ Input[pos].k = "decl"
  /\ pos' = pos + 1
  /\ lastLines' = <<>>
  /\ UNCHANGED <<doc, mode, pass, pend, open, phase, err, fc, flt, tl, indent, lw,
                 dest, hist, received, sentTo, out1>>

on_start_element ==
  /\ Reading /\ ~pend /\ Input[pos].k \in {"open", "empty"}
  /\ Deliver(StartElem(Input[pos].name, DecodeAttrs(Input[pos].attrs)))
  /\ pend' = (Input[pos].k = "empty")
  /\ pos' = IF Input[pos].k = "empty" THEN pos ELSE pos + 1
  /\ UNCHANGED <<doc, mode, pass, dest, out1>>

on_end_element ==
  /\ Reading /\ (pend \/ Input[pos].k = "close")
  /\ Deliver(EndElem(Input[pos].name))
  /\ pend' = FALSE
  /\ pos' = pos + 1
  /\ UNCHANGED <<doc, mode, pass, dest, out1>>

on_characters ==
  /\ Reading /\ ~pend /\ Input[pos].k = "text" /\ ~Malformed(Input[pos])
  /\ Deliver(Text(DecodeStr(Input[pos].c)))
  /\ UNCHANGED <<doc, mode, pass, pend, dest, out1>>
  /\ pos' = pos + 1

\* process_file prints the ExpatError and returns
ParseError ==
  /\ Reading /\ ~pend /\ Malformed(Input[pos])
  /\ phase' = "parsed"
  /\ err' = "expat"
  /\ open' = FALSE
  /\ lastLines' = <<>>
  /\ UNCHANGED <<doc, mode, pass, pos, pend, fc, flt, tl, indent, lw, dest, hist, received, sentTo, out1>>

ParseEnd ==
  /\ phase = "parsing" /\ pos > Len(Input)
  /\ phase' = "parsed"
  /\ open' = FALSE
  /\ lastLines' = <<>>
  /\ UNCHANGED <<doc, mode, pass, pos, pend, err, fc, flt, tl, indent, lw, dest, hist, received, sentTo, out1>>

\* the destination is opened before the source has been read
CanWriteEarly == phase \in {"parsing", "parsed"}

\* filter_file goes on after process_file has returned
CanWrite == phase = "parsed" /\ ~open

WriteOutput ==
  /\ CanWrite
  /\ dest' = lw.text
  /\ phase' = "written"
  /\ lastLines' = <<>>
  /\ UNCHANGED <<doc, mode, pass, pos, pend, open, err, fc, flt, tl, indent, lw, hist, received, sentTo, out1>>

\* the same filter run again on the file the first pass wrote, in place
SecondPass ==
  /\ phase = "written" /\ pass = 1 /\ err = "none" /\ mode.f = "set"
  /\ pass' = 2
  /\ out1' = dest
  /\ pos' = 1
  /\ pend' = FALSE
  /\ open' = TRUE
  /\ phase' = "parsing"
  /\ fc' = FcInit
  /\ flt' = FltInit(mode)
  /\ tl' = TlInit
  /\ indent' = 0
  /\ lw' = genoutput
  /\ hist' = <<>>
  /\ received' = <<>>
  /\ sentTo' = SentInit
  /\ lastLines' = <<>>
  /\ UNCHANGED <<doc, mode, err, dest>>

Next ==
  \/ XmlDecl
  \/ on_start_element
  \/ on_end_element
  \/ on_characters
  \/ ParseError
  \/ ParseEnd
  \/ WriteOutput
  \/ SecondPass

Spec == Init /\ [][Next]_vars

\* ------------------------------------------------------------------ notions the claims use
IsPrefix(a, b) == Len(a) <= Len(b) /\ SubSeq(b, 1, Len(a)) = a

\* the callbacks ParseFile makes on a whole file, up to malformed markup
TokenEvents(item) ==
  CASE item.k = "open" -> <<StartElem(item.name, DecodeAttrs(item.attrs))>>
    [] item.k = "empty" -> <<StartElem(item.name, DecodeAttrs(item.attrs)), EndElem(item.name)>>
    [] item.k = "close" -> <<EndElem(item.name)>>
    [] item.k = "text" -> <<Text(DecodeStr(item.c))>>
    [] OTHER -> <<>>

\* the items of f before the first malformed one
Parsed(f) == SubSeq(f, 1, Cardinality({i \in 1..Len(f) : \A j \in 1..i : ~Malformed(f[j])}))

RECURSIVE Callbacks(_)
Callbacks(f) ==
  IF f = <<>> THEN <<>>
  ELSE IF Len(f) = 1 THEN TokenEvents(f[1])
  ELSE Callbacks(SubSeq(f, 1, Len(f) \div 2))
       \o Callbacks(SubSeq(f, Len(f) \div 2 + 1, Len(f)))

Tokenize(f) == Callbacks(Parsed(f))

WellFormed(f) == \A i \in 1..Len(f) : ~Malformed(f[i])

\* what filter_chars sends for the items evs, from state s
RECURSIVE FcAll(_, _)
FcAll(s, evs) ==
  IF evs = <<>> THEN <<>>
  ELSE filter_chars(s, evs[1]).out \o FcAll(filter_chars(s, evs[1]).st, Tail(evs))

\* the items the filter has received in this pass
Received == received

\* the normalized items between the root's start and end tags
Between(evs) == SubSeq(evs, 2, Len(evs) - 1)

Inner(f) == Between(FcAll(FcInit, Tokenize(f)))

\* elements opened and not closed within evs
Level(evs) ==
  Cardinality({i \in 1..Len(evs) : evs[i].action = "start_elem"})
  - Cardinality({i \in 1..Len(evs) : evs[i].action = "end_elem"})

\* evs[i] opens an element at sibling level 0
Direct(evs, i) == evs[i].action = "start_elem" /\ Level(SubSeq(evs, 1, i - 1)) = 0

DirectNamed(evs, name) == {i \in 1..Len(evs) : Direct(evs, i) /\ evs[i].name = name}

\* the element opened at evs[i] holds one Text or NoOp and nothing else
UnitBody(evs, i) ==
  /\ i + 2 <= Len(evs)
  /\ evs[i + 1].action \in {"chars", "noop"}
  /\ evs[i + 2].action = "end_elem"

TextBody(evs, i) == UnitBody(evs, i) /\ evs[i + 1].action = "chars"

Satisfies(m, ev) ==
  /\ ~(m.name = "" /\ m.test = "none")
  /\ (m.name = "" \/ ev.name = m.name)
  /\ (m.test = "none" \/ ev.attrs # <<>>)

\* what the destination held when filter_file was called
DestAtCall == IF pass = 1 THEN DestBefore ELSE out1

\* the file parse_filename opened
InputAtOpen == IF pass = 1 THEN doc ELSE Norm(out1)

RECURSIVE Concat(_)
Concat(evs) ==
  IF evs = <<>> THEN <<>>
  ELSE IF Len(evs) = 1 THEN evs[1].content
  ELSE Concat(SubSeq(evs, 1, Len(evs) \div 2))
       \o Concat(SubSeq(evs, Len(evs) \div 2 + 1, Len(evs)))

\* the last item of h[1..n] that is not character data, 0 if there is none
RECURSIVE LastTag(_, _)
LastTag(h, n) ==
  IF n = 0 THEN 0 ELSE IF h[n].action # "chars" THEN n ELSE LastTag(h, n - 1)

\* ------------------------------------------------------------------ claims
\* C1: whenever a failure occurred during the pass (malformed markup
\* reported by the tokenizer, or a failed assertion of a stage or filter),
\* the destination holds what it held before the call.
C1_DestinationUntouchedOnFailure == err # "none" => dest = DestAtCall

\* C2: the destination differs from what it held at the call only after
\* the source has been closed and the tokenizer has delivered its last
\* item (the whole file, or the items before the malformed markup); while
\* the source is open nothing has been written.
C2_WriteOnlyAfterSourceClosed ==
  /\ open => dest = DestAtCall
  /\ dest # DestAtCall =>
       /\ ~open
       /\ phase = "written"
       /\ (err = "expat" \/ pos > Len(InputAtOpen))
       /\ dest = lw.text

C2_Witness ==
  /\ phase = "written" /\ err = "none" /\ pass = 1
  /\ dest # DestAtCall
  /\ Len(hist) >= 4

\* C3: a document in the layout, run through the pipeline with the filter
\* that forwards every item, is written back identical to the source.
C3_RoundTripIdentity ==
  (mode.f = "pass" /\ phase = "written" /\ doc \in LayoutDocs) => Norm(dest) = Norm(doc)

\* C4: with the forwarding filter, an element whose start tag is directly
\* followed by its end tag yields exactly one EmptyLine when the end tag
\* arrives; an element whose body is only whitespace holding a line break
\* yields exactly a StartLine and an EndLine then; no line is produced for
\* a leaf element before its end tag arrives.
C4_LeafStart(h, n) == LastTag(h, n - 1)

C4_IsLeafEnd(h, n) ==
  /\ n >= 2
  /\ h[n].action = "end_elem"
  /\ C4_LeafStart(h, n) > 0
  /\ h[C4_LeafStart(h, n)].action = "start_elem"

C4_Body(h, n) == Concat(SubSeq(h, C4_LeafStart(h, n) + 1, n - 1))

C4_EmptyCase(h, n) == C4_IsLeafEnd(h, n) /\ C4_LeafStart(h, n) = n - 1

C4_BlankCase(h, n) ==
  /\ C4_IsLeafEnd(h, n)
  /\ C4_LeafStart(h, n) < n - 1
  /\ Blank(C4_Body(h, n))
  /\ HasNL(C4_Body(h, n))

C4_SelfClosingReconstruction ==
  (mode.f = "pass" /\ phase = "parsing" /\ hist # <<>>) =>
    /\ C4_EmptyCase(hist, Len(hist)) =>
         lastLines = <<EmptyLine(hist[Len(hist) - 1])>>
    /\ C4_BlankCase(hist, Len(hist)) =>
         lastLines = <<StartLine(hist[C4_LeafStart(hist, Len(hist))]),
                       EndLine(hist[Len(hist)])>>
    /\ hist[Len(hist)].action = "chars" => lastLines = <<>>
    /\ hist[Len(hist)].action = "start_elem" =>
         \A i \in 1..Len(lastLines) : lastLines[i].t = "start_elem_line"

C4_Witness ==
  /\ mode.f = "pass" /\ phase = "parsing" /\ hist # <<>>
  /\ C4_BlankCase(hist, Len(hist))
  /\ Len(lastLines) = 2

\* the items skip_to or set_content has taken from the filter's input: the
\* root's start tag went to the filter itself, the rest to the primitive
Taken == <<Received[1]>> \o flt.recv
         \o (IF flt.ret.returned THEN <<flt.ret.ev>> ELSE <<>>)

Scanning == mode.f = "skip" /\ pass = 1 /\ flt.pc \in {"skip", "pass"} /\ err = "none"

\* C5: skip_to(target, name="B") returns matched only on a start tag named
\* B at sibling level 0; a B inside another sibling is forwarded with that
\* sibling's whole subtree; without a match at level 0 it returns
\* (False, "end_elem", params) at the enclosing end tag, which it does not
\* forward.
C5_Candidate(ev) ==
  /\ ev.action = "start_elem"
  /\ ev.name = "B"
  /\ (mode.test = "none" \/ ev.attrs # <<>>)

C5_NestedAndForwarded(i) ==
  /\ Level(SubSeq(flt.recv, 1, i - 1)) > 0
  /\ flt.sent[i] = flt.recv[i]

C5_SiblingScopedScan ==
  (Scanning /\ mode.name = "B") =>
    /\ Level(flt.recv) >= 0
    /\ Len(flt.sent) = Len(flt.recv)
    /\ \A i \in 1..Len(flt.recv) :
         (C5_Candidate(flt.recv[i]) => C5_NestedAndForwarded(i))
    /\ flt.ret.returned =>
         /\ Level(flt.recv) = 0
         /\ flt.ret.ev.action = (IF flt.ret.matched THEN "start_elem" ELSE "end_elem")
         /\ flt.ret.matched => flt.ret.ev.name = "B"

C5_Witness ==
  /\ Scanning /\ mode.name = "B" /\ mode.test = "none"
  /\ flt.ret.returned /\ ~flt.ret.matched
  /\ \E i \in 1..Len(flt.recv) :
       flt.recv[i].action = "start_elem" /\ flt.recv[i].name = "B"

\* C6: what skip_to has sent to target is exactly what it received before
\* the item it returned, in the same order; the returned item is the next
\* item of the input and is the first start tag at level 0 that satisfies
\* name and attr_test, or else the enclosing end tag; with name and
\* attr_test both None it returns (False, "end_elem", params).
C6_SkipHandOff ==
  Scanning =>
    /\ flt.sent = flt.recv
    /\ IsPrefix(Taken, Received)
    /\ ~flt.ret.returned => Taken = Received
    /\ \A i \in 1..Len(flt.recv) :
         ~(Direct(flt.recv, i) /\ Satisfies(mode, flt.recv[i]))
    /\ flt.ret.returned =>
         IF flt.ret.matched
         THEN Direct(flt.recv \o <<flt.ret.ev>>, Len(flt.recv) + 1)
              /\ Satisfies(mode, flt.ret.ev)
         ELSE flt.ret.ev.action = "end_elem" /\ Level(flt.recv) = 0
    /\ (mode.name = "" /\ mode.test = "none") => ~flt.ret.matched

C6_Witness ==
  /\ Scanning /\ mode.test = "hasattrs"
  /\ flt.ret.returned /\ flt.ret.matched
  /\ Len(flt.sent) >= 3

\* C7: when the enclosing element has no direct child named name,
\* set_content has sent to target every item it received, unchanged and in
\* order, followed by ElementStart{name, no attributes}, Text{content},
\* ElementEnd{name}; it returns the enclosing end tag, so that the new
\* element is rendered last, directly before the enclosing close tag.
Inserting ==
  /\ mode.f = "set" /\ pass = 1 /\ err = "none"
  /\ flt.ret.returned
  /\ DirectNamed(flt.recv, mode.name) = {}

C7_InsertedAsLastChild ==
  Inserting =>
    /\ flt.sent = flt.recv \o <<StartElem(mode.name, <<>>), Text(mode.content),
                               EndElem(mode.name)>>
    /\ Taken = Received
    /\ flt.ret.ev.action = "end_elem" /\ Level(flt.recv) = 0
    /\ phase = "parsing" =>
         /\ Len(lastLines) >= 2
         /\ lastLines[Len(lastLines) - 1] =
              ContentLine(StartElem(mode.name, <<>>), mode.content)
         /\ lastLines[Len(lastLines)] = EndLine(flt.ret.ev)

C7_Witness ==
  /\ Inserting /\ phase = "parsing"
  /\ \E i \in 1..Len(flt.recv) :
       flt.recv[i].action = "start_elem" /\ flt.recv[i].name = mode.name

\* the direct children of the root named name, in the normalized document
RootChildren(f, name) == DirectNamed(Inner(f), name)

Setting == mode.f = "set" /\ pass = 1 /\ WellFormed(doc)

\* the only direct child named name, when there is exactly one
OnlyChild(f, name) == CHOOSE i \in RootChildren(f, name) : TRUE

\* C8: when the enclosing element has exactly one direct child named name
\* and its normalized body is a single Text or NoOp, set_content does not
\* fail on it and has sent, in place of the child, its start tag with the
\* original attributes, Text{content} and its end tag, all other items
\* unchanged.
C8_ReplacesUnitBody ==
  (Setting /\ Cardinality(RootChildren(doc, mode.name)) = 1
           /\ UnitBody(Inner(doc), OnlyChild(doc, mode.name))) =>
    /\ err = "none"
    /\ flt.ret.returned =>
         /\ flt.recv = Inner(doc)
         /\ flt.sent = [Inner(doc) EXCEPT ![OnlyChild(doc, mode.name) + 1] =
                                            Text(mode.content)]

\* C9: when the enclosing element has two or more direct children named
\* name, each holding one Text or NoOp, the pass ends in the
\* duplicate-element error raised on the start tag of the second one, and
\* nothing is written to the destination.
C9_SecondChild(f, name) ==
  CHOOSE i \in RootChildren(f, name) :
    Cardinality({j \in RootChildren(f, name) : j < i}) = 1

C9_DuplicateDetected ==
  (Setting /\ Cardinality(RootChildren(doc, mode.name)) >= 2
           /\ (\A i \in RootChildren(doc, mode.name) : UnitBody(Inner(doc), i))
           /\ phase \in {"written", "aborted"}) =>
    /\ err = "duplicate"
    /\ phase = "aborted"
    /\ dest = DestBefore
    /\ Len(Received) = C9_SecondChild(doc, mode.name) + 1

\* C10: the second pass of the same set_content filter over the file the
\* first pass wrote succeeds and leaves the file as the first pass wrote it.
C10_UpsertIdempotent ==
  (mode.f = "set" /\ pass = 2) =>
    /\ err = "none"
    /\ phase = "written" => Norm(dest) = Norm(out1)

\* C11: whenever set_content has returned, on the replaced and on the
\* synthesized path, what it returned is the end tag of the enclosing
\* element, which it has not sent to target; the items it received before
\* are exactly the filter's input up to that end tag, and it has sent all of
\* them, with the body of the child named name replaced or the new element
\* appended.
C11_Returned == mode.f = "set" /\ flt.ret.returned

C11_Child == CHOOSE i \in DirectNamed(flt.recv, mode.name) : TRUE

C11_Expected ==
  IF DirectNamed(flt.recv, mode.name) = {}
  THEN flt.recv \o <<StartElem(mode.name, <<>>), Text(mode.content), EndElem(mode.name)>>
  ELSE [flt.recv EXCEPT ![C11_Child + 1] = Text(mode.content)]

C11_ReturnsAtEnclosingEnd ==
  C11_Returned =>
    /\ flt.ret.ev.action = "end_elem" /\ ~flt.ret.matched
    /\ flt.ret.ev.name = Received[1].name
    /\ Level(flt.recv) = 0
    /\ IsPrefix(Taken, Received)
    /\ Cardinality(DirectNamed(flt.recv, mode.name)) <= 1
    /\ flt.sent = C11_Expected

C11_Witness ==
  /\ C11_Returned /\ pass = 1
  /\ DirectNamed(flt.recv, mode.name) # {}
  /\ Len(flt.recv) > 3

IsTag(ev) == ev.action \in {"start_elem", "end_elem"}

IsBody(ev) == ev.action \in {"chars", "noop"}

Tags(evs) == SelectSeq(evs, IsTag)

\* the last k items of evs
Suffix(evs, k) == SubSeq(evs, Len(evs) - k + 1, Len(evs))

\* C12: the start and end tags filter_chars has sent are the start and end
\* tags it received, with the same names and attributes and in the same
\* order; everything else it has sent is a Text or a NoOp.
C12_TagsUnchanged ==
  /\ Tags(Received) = Tags(hist)
  /\ \A i \in 1..Len(Received) : IsTag(Received[i]) \/ IsBody(Received[i])

C12_Witness ==
  /\ Len(Tags(hist)) >= 4
  /\ Len(Received) < Len(hist)
  /\ \E i \in 1..Len(hist) : hist[i].action = "start_elem" /\ hist[i].attrs # <<>>
  /\ \E i \in 1..Len(Received) : Received[i] = NoOp

\* C13: when the end tag of an element without child elements has been
\* received, filter_chars has sent between its start and end tags nothing
\* if no character data was received, one NoOp if the pieces received are
\* together whitespace with a line break, and otherwise one Text holding
\* the pieces concatenated in the order they arrived.
C13_Start == LastTag(hist, Len(hist) - 1)

C13_LeafClosed ==
  /\ phase \in {"parsing", "aborted"}
  /\ Len(hist) >= 2
  /\ hist[Len(hist)].action = "end_elem"
  /\ C13_Start > 0
  /\ hist[C13_Start].action = "start_elem"

C13_Pieces == SubSeq(hist, C13_Start + 1, Len(hist) - 1)

C13_Expected ==
  IF C13_Pieces = <<>> THEN <<hist[C13_Start], hist[Len(hist)]>>
  ELSE IF Blank(Concat(C13_Pieces)) /\ HasNL(Concat(C13_Pieces))
  THEN <<hist[C13_Start], NoOp, hist[Len(hist)]>>
  ELSE <<hist[C13_Start], Text(Concat(C13_Pieces)), hist[Len(hist)]>>

C13_BodyClassification ==
  C13_LeafClosed =>
    /\ Len(Received) >= Len(C13_Expected)
    /\ Suffix(Received, Len(C13_Expected)) = C13_Expected

C13_Witness ==
  /\ C13_LeafClosed
  /\ Len(C13_Pieces) >= 2
  /\ HasNL(Concat(C13_Pieces)) /\ ~Blank(Concat(C13_Pieces))

\* C20: every Text or NoOp filter_chars has sent stands directly between a
\* start tag and the end tag of the same element, so an element has at most
\* one; there is one for each element without child elements that received
\* character data and none for character data received beside child
\* elements, which raises no error.
C20_LeafEnds ==
  {n \in 2..Len(hist) :
     /\ hist[n].action = "end_elem"
     /\ LastTag(hist, n - 1) \in 1..(n - 2)
     /\ hist[LastTag(hist, n - 1)].action = "start_elem"}

C20_Bodies == {i \in 1..Len(Received) : IsBody(Received[i])}

C20_Enclosed(i) ==
  /\ i > 1 /\ i < Len(Received)
  /\ Received[i - 1].action = "start_elem"
  /\ Received[i + 1] = EndElem(Received[i - 1].name)

C20_BodyOnlyInLeaf ==
  /\ \A i \in C20_Bodies : C20_Enclosed(i)
  /\ Cardinality(C20_Bodies) = Cardinality(C20_LeafEnds)
  /\ mode.f = "pass" => err \in {"none", "expat"}

C20_Witness ==
  /\ mode.f = "pass" /\ phase = "written" /\ err = "none"
  /\ C20_Bodies # {}
  /\ \E i \in 2..Len(hist) :
       /\ hist[i].action = "chars" /\ ~Blank(hist[i].content)
       /\ hist[i - 1].action = "end_elem"
  /\ \E i \in 1..(Len(hist) - 1) :
       /\ hist[i].action = "chars" /\ ~Blank(hist[i].content)
       /\ hist[i + 1].action = "start_elem"

\* a sequence of sequences, concatenated
RECURSIVE Flat(_)
Flat(ss) ==
  IF ss = <<>> THEN <<>>
  ELSE IF Len(ss) = 1 THEN ss[1]
  ELSE Flat(SubSeq(ss, 1, Len(ss) \div 2)) \o Flat(SubSeq(ss, Len(ss) \div 2 + 1, Len(ss)))

\* the first item of evs behind evs[i] that is not character data, 0 if
\* there is none yet
NextTag(evs, i) ==
  IF \A k \in (i + 1)..Len(evs) : evs[k].action = "chars" THEN 0
  ELSE CHOOSE k \in (i + 1)..Len(evs) :
         /\ evs[k].action # "chars"
         /\ \A j \in (i + 1)..(k - 1) : evs[j].action = "chars"

TextBehind(evs, i) == Concat(SubSeq(evs, i + 1, NextTag(evs, i) - 1))

\* the line the start tag evs[i] stands for, once the item behind it and
\* its character data decides it
StartShape(evs, i) ==
  IF NextTag(evs, i) = 0 THEN <<>>
  ELSE IF evs[NextTag(evs, i)].action = "end_elem"
  THEN IF NextTag(evs, i) = i + 1 THEN <<EmptyLine(evs[i])>>
       ELSE <<ContentLine(evs[i], TextBehind(evs, i))>>
  ELSE <<StartLine(evs[i])>>

\* the end tag evs[i] closes a start tag that became an EmptyLine or a
\* ContentLine
ClosesLeaf(evs, i) ==
  /\ LastTag(evs, i - 1) > 0
  /\ evs[LastTag(evs, i - 1)].action = "start_elem"

LineOf(evs, i) ==
  IF evs[i].action = "start_elem" THEN StartShape(evs, i)
  ELSE IF evs[i].action = "end_elem" /\ ~ClosesLeaf(evs, i) THEN <<EndLine(evs[i])>>
  ELSE <<>>

\* the lines the items evs[1..m] stand for, in document order
LinesUpTo(evs, m) == Flat([i \in 1..m |-> LineOf(evs, i)])

\* every Text or NoOp of evs is the whole body of an element
NormalizedStream(evs) ==
  \A i \in 1..Len(evs) :
    IsBody(evs[i]) =>
      /\ i > 1 /\ i < Len(evs)
      /\ evs[i - 1].action = "start_elem"
      /\ evs[i + 1] = EndElem(evs[i - 1].name)

LinesOfType(t) == {i \in 1..Len(sentTo.lines) : sentTo.lines[i].t = t}

\* C14: once to_lines has received the root's end tag of a well-formed
\* normalized stream, it has sent for every element one EmptyLine, one
\* ContentLine or one StartLine and one EndLine, in document order, it
\* holds no start tag back, and every item it peeked at without using it
\* for the decision was handled as the next item.
C14_RootClosed ==
  /\ err = "none"
  /\ sentTo.events # <<>> /\ Level(sentTo.events) = 0
  /\ NormalizedStream(sentTo.events)

C14_LinesComplete ==
  C14_RootClosed =>
    /\ sentTo.lines = LinesUpTo(sentTo.events, Len(sentTo.events))
    /\ tl.pc = "top"
    /\ Cardinality(LinesOfType("start_elem_line")) = Cardinality(LinesOfType("end_elem_line"))
    /\ Cardinality(LinesOfType("start_elem_line")) + Cardinality(LinesOfType("empty_elem_line"))
       + Cardinality(LinesOfType("content_elem_line"))
       = Cardinality({i \in 1..Len(sentTo.events) : sentTo.events[i].action = "start_elem"})

C14_Witness ==
  /\ C14_RootClosed /\ mode.f = "pass"
  /\ LinesOfType("empty_elem_line") # {}
  /\ LinesOfType("content_elem_line") # {}
  /\ LinesOfType("start_elem_line") # {}
  /\ LinesOfType("end_elem_line") # {}

\* the start tags of evs followed by character data and then by an item
\* that is no end tag
Mixed(evs) ==
  {i \in 1..Len(evs) :
     /\ evs[i].action = "start_elem"
     /\ NextTag(evs, i) > i + 1
     /\ evs[NextTag(evs, i)].action # "end_elem"}

\* C15: when to_lines has received a start tag S, character data and then
\* an item that is no end tag: if the character data is whitespace it is
\* dropped, StartLine(S) is sent and the item is handled as the next input,
\* so that the lines sent are those of the stream without that character
\* data; otherwise the assertion fails at that item, the pass is aborted
\* and no line has been sent for S.
C15_BlankCase(i) ==
  /\ IsPrefix(LinesUpTo(sentTo.events, i), sentTo.lines)
  /\ LinesUpTo(sentTo.events, i)[Len(LinesUpTo(sentTo.events, i))] = StartLine(sentTo.events[i])
  /\ err # "assert_mixed" => sentTo.lines = LinesUpTo(sentTo.events, Len(sentTo.events))

C15_FailedCase(i) ==
  /\ err = "assert_mixed" /\ phase = "aborted"
  /\ NextTag(sentTo.events, i) = Len(sentTo.events)
  /\ sentTo.lines = LinesUpTo(sentTo.events, i - 1)

C15_MixedContent ==
  \A i \in Mixed(sentTo.events) :
    IF Blank(TextBehind(sentTo.events, i)) THEN C15_BlankCase(i) ELSE C15_FailedCase(i)

C15_Witness ==
  /\ err = "assert_mixed"
  /\ \E i \in Mixed(sentTo.events) :
       /\ ~Blank(TextBehind(sentTo.events, i))
       /\ sentTo.events[NextTag(sentTo.events, i)].action = "start_elem"

\* the StartLines among the first n annotated lines that no EndLine among
\* them closes
Unclosed(dls, n) ==
  Cardinality({j \in 1..n : dls[j].line.t = "start_elem_line"})
  - Cardinality({j \in 1..n : dls[j].line.t = "end_elem_line"})

\* dls[j] is the StartLine that the EndLine dls[i] closes
Matching(dls, j, i) ==
  /\ j < i
  /\ dls[j].line.t = "start_elem_line"
  /\ dls[j].line.name = dls[i].line.name
  /\ Unclosed(dls, i - 1) - Unclosed(dls, j) = 0
  /\ \A k \in (j + 1)..(i - 1) : Unclosed(dls, k) >= Unclosed(dls, j)

\* C16: the depth compute_indent puts on a line is never negative; on an
\* EndLine it is the depth of the StartLine it closes, on every other line
\* the number of StartLines not yet closed; the counter is that number
\* after the last line, and 0 once the root is closed.
C16_DepthOf(i) ==
  IF sentTo.dlines[i].line.t = "end_elem_line"
  THEN /\ sentTo.dlines[i].d = Unclosed(sentTo.dlines, i)
       /\ \E j \in 1..(i - 1) :
            Matching(sentTo.dlines, j, i) /\ sentTo.dlines[j].d = sentTo.dlines[i].d
  ELSE sentTo.dlines[i].d = Unclosed(sentTo.dlines, i - 1)

C16_IndentAnnotation ==
  /\ Len(sentTo.dlines) = Len(sentTo.lines)
  /\ \A i \in 1..Len(sentTo.dlines) :
       /\ sentTo.dlines[i].line = sentTo.lines[i]
       /\ sentTo.dlines[i].d >= 0
       /\ C16_DepthOf(i)
  /\ indent = Unclosed(sentTo.dlines, Len(sentTo.dlines))
  /\ (sentTo.events # <<>> /\ Level(sentTo.events) = 0 /\ err = "none") => indent = 0

C16_Witness ==
  /\ phase = "written" /\ err = "none" /\ indent = 0
  /\ \E i \in 1..Len(sentTo.dlines) :
       sentTo.dlines[i].line.t = "end_elem_line" /\ sentTo.dlines[i].d = 1
  /\ \E i \in 1..Len(sentTo.dlines) :
       sentTo.dlines[i].line.t = "content_elem_line" /\ sentTo.dlines[i].d = 2

\* the strings joined by the newline
RECURSIVE Joined(_)
Joined(ss) ==
  IF ss = <<>> THEN <<>>
  ELSE IF Len(ss) = 1 THEN ss[1]
  ELSE Joined(SubSeq(ss, 1, Len(ss) \div 2)) \o Newline
       \o Joined(SubSeq(ss, Len(ss) \div 2 + 1, Len(ss)))

\* C17: what the writer holds begins with the declaration, which occurs
\* in it once; it is the n lines sent to line_writer so far, joined by
\* n - 1 newlines, with no newline before the first line or behind the
\* last.
C17_OutputFraming ==
  /\ Len(sentTo.strings) >= 1
  /\ sentTo.strings[1] = DeclLine
  /\ lw.text = Joined(sentTo.strings)
  /\ {i \in 1..Len(lw.text) : lw.text[i] = Decl} = {1}
  /\ Cardinality({i \in 1..Len(lw.text) : lw.text[i] = Newline[1]}) = Len(sentTo.strings) - 1
  /\ lw.text[Len(lw.text)] # Newline[1]

C17_Witness ==
  /\ phase = "written" /\ dest = lw.text
  /\ Len(sentTo.strings) >= 5
  /\ \E i \in 1..Len(sentTo.dlines) :
       sentTo.dlines[i].line.t = "content_elem_line" /\ HasNL(sentTo.dlines[i].line.content)

\* the ContentLines sent to to_strings whose content holds a line break
MultiLine ==
  {i \in 1..Len(sentTo.dlines) :
     /\ sentTo.dlines[i].line.t = "content_elem_line"
     /\ HasNL(sentTo.dlines[i].line.content)}

LineBreaks(content) == Cardinality({j \in 1..Len(content) : content[j] = "\n"})

\* the strings to_strings sends for the annotated line dl
Rendered(dl) == to_strings(dl.d, dl.line)

\* C18: a ContentLine at depth d whose content holds k line breaks is
\* rendered as k + 1 strings, each of which begins with the indent of
\* depth d.
C18_EveryLineIndented ==
  \A i \in MultiLine :
    /\ Len(Rendered(sentTo.dlines[i])) = LineBreaks(sentTo.dlines[i].line.content) + 1
    /\ \A j \in 1..Len(Rendered(sentTo.dlines[i])) :
         IsPrefix(xml_indent(sentTo.dlines[i].d), Rendered(sentTo.dlines[i])[j])

\* a Text the filter sent directly behind an end tag
StrayText ==
  {i \in 2..Len(sentTo.events) :
     sentTo.events[i].action = "chars" /\ sentTo.events[i - 1].action = "end_elem"}

\* C19: when the filter has sent a Text that does not follow a start tag,
\* the pass is aborted with an error and nothing is written to the
\* destination.
C19_StrayTextAborts ==
  StrayText # {} => (err # "none" /\ phase = "aborted" /\ dest = DestAtCall)

====
